---- MODULE Spec2Model ----
(***************************************************************************)
(* FloatChat ARGO single-page client (src/frontend/app.js): the            *)
(* FloatChatApp object, the document it renders into, local storage, the   *)
(* clock and the pending one-shot timers, as a state machine.              *)
(*                                                                         *)
(* Strings the code looks into (chat queries) are sequences of one-        *)
(* character strings.  A stored credential is the sequence of its          *)
(* '.'-separated pieces; each piece is what atob makes of it.  Time is in  *)
(* milliseconds, as Date.now() reports it.                                 *)
(*                                                                         *)
(* The relational fixture (src/database/mysql_setup.sql) is a second       *)
(* machine: the setup script statement by statement, the tables and        *)
(* objects it leaves, the statements a session issues against              *)
(* argo_floats, the procedure GetFloatsInRegion and the trigger            *)
(* argo_floats_audit.                                                      *)
(***************************************************************************)
EXTENDS Integers, Sequences, FiniteSets, TLC

VARIABLES
    currentUser,      \* this.currentUser
    currentPage,      \* this.currentPage
    chatHistory,      \* this.chatHistory
    argoFloats,       \* this.argoFloats
    authToken,        \* localStorage item 'authToken'
    now,              \* Date.now(), milliseconds
    loginBtnHidden,   \* #loginBtn carries class hidden
    logoutBtnHidden,  \* #logoutBtn carries class hidden
    authModalHidden,  \* #authModal carries class hidden
    modalBody,        \* what #modalBody holds
    mainContent,      \* the view #main-content holds
    userContent,      \* the pane #user-content holds, or Absent
    adminContent,     \* the pane #admin-content holds, or Absent
    chatMessages,     \* the entries of the attached #chatMessages element
    argoMap,          \* #argoMap: Absent, "empty" or "initialized"
    floatsHeader,     \* the number the ARGO Float Locations card shows
                      \* before "Active Floats": <<n>>, or <<>> without card
    updateStatus,     \* what #updateStatus shows, or Absent
    conversionStatus, \* what #conversionStatus shows, or Absent
    conversionResults,\* the lines #conversionResults lists
    timers,           \* pending setTimeout callbacks, in creation order,
                      \* each with the milliseconds left until its timeout
    alerts,           \* alert() dialogs the handler that ran last raised
    call,             \* the handler that ran last, with its arguments (for
                      \* sendChatMessage, the characters in #chatInput)
    query,            \* resolver harness: the query under test
    reply,            \* resolver harness: the resolver's result for query
    argo_floats,      \* table argo_floats: its rows, in primary-key order
    auto_increment,   \* the next AUTO_INCREMENT value of argo_floats.id
    audit_log,        \* table audit_log: its rows, in primary-key order
    users,            \* table users: its rows, in primary-key order
    ocean_profiles,   \* table ocean_profiles: its rows, in primary-key order
    objects,          \* the database, account, tables, views, procedures
                      \* and triggers the server holds
    statement         \* the SQL statement that ran last, with its outcome

vars == <<currentUser, currentPage, chatHistory, argoFloats, authToken, now,
          loginBtnHidden, logoutBtnHidden, authModalHidden, modalBody,
          mainContent, userContent, adminContent, chatMessages, argoMap,
          floatsHeader, updateStatus, conversionStatus, conversionResults,
          timers, alerts, call, query, reply,
          argo_floats, auto_increment, audit_log, users, ocean_profiles,
          objects, statement>>

dbVars == <<argo_floats, auto_increment, audit_log, users, ocean_profiles,
            objects, statement>>

appVars == <<currentUser, currentPage, chatHistory, argoFloats, authToken,
             now, loginBtnHidden, logoutBtnHidden, authModalHidden,
             modalBody, mainContent, userContent, adminContent, chatMessages,
             argoMap, floatsHeader, updateStatus, conversionStatus,
             conversionResults, timers, alerts, call>>

(***************************************************************************)
(* Bounds of the model.                                                    *)
(***************************************************************************)
MaxTicks == 1      \* the clock is read at instants 0..MaxTicks
MaxChat == 2       \* accepted chat queries per document load
MaxTimers == 1     \* setTimeout callbacks pending at once
MaxFrags == 2      \* fragments concatenated into a resolver query
MaxQueued == 2     \* accepted chat queries, and pending callbacks, in ChatSpec
MaxAudit == 2      \* rows of audit_log
MaxInserts == 1    \* rows inserted into argo_floats after the setup
MaxSources == 1    \* repeated runs of the setup script that add rows

(***************************************************************************)
(* Program constants.                                                      *)
(***************************************************************************)
TokenLifetime == 3600   \* seconds added to the login time
ReplyDelay == 1000      \* milliseconds before the bot reply is shown
MapDelay == 100         \* milliseconds before the map is initialised
ConvertDelay == 2000    \* milliseconds a conversion takes

(***************************************************************************)
(* Strings as sequences of characters.                                     *)
(***************************************************************************)
UpperCase == <<"A","B","C","D","E","F","G","H","I","J","K","L","M",
               "N","O","P","Q","R","S","T","U","V","W","X","Y","Z">>
LowerCase == <<"a","b","c","d","e","f","g","h","i","j","k","l","m",
               "n","o","p","q","r","s","t","u","v","w","x","y","z">>
WhiteSpace == {" ", "\t", "\n"}

\* String.prototype.toLowerCase
toLowerCase(s) ==
    [i \in 1..Len(s) |->
        IF \E j \in 1..26 : UpperCase[j] = s[i]
        THEN LowerCase[CHOOSE j \in 1..26 : UpperCase[j] = s[i]]
        ELSE s[i]]

\* String.prototype.includes
includes(s, k) ==
    \E i \in 0..(Len(s) - Len(k)) : SubSeq(s, i + 1, i + Len(k)) = k

\* String.prototype.trim
trim(s) ==
    LET inner == {i \in 1..Len(s) : s[i] \notin WhiteSpace} IN
    IF inner = {} THEN <<>>
    ELSE SubSeq(s, CHOOSE i \in inner : \A j \in inner : i <= j,
                   CHOOSE i \in inner : \A j \in inner : j <= i)

(***************************************************************************)
(* The float list and the response resolver.                               *)
(***************************************************************************)
\* constructor: this.argoFloats (lat, lng, temp, salinity in tenths)
Floats ==
    << [id |-> "2901623", lat |-> -105, lng |-> 678, status |-> "active",
        temp |-> 285, salinity |-> 351],
       [id |-> "2901624", lat |-> -152, lng |-> 721, status |-> "active",
        temp |-> 278, salinity |-> 353],
       [id |-> "2901625", lat |-> -87, lng |-> 653, status |-> "active",
        temp |-> 291, salinity |-> 349],
       [id |-> "2901626", lat |-> -128, lng |-> 705, status |-> "maintenance",
        temp |-> 252, salinity |-> 350],
       [id |-> "2901627", lat |-> -62, lng |-> 689, status |-> "active",
        temp |-> 288, salinity |-> 352] >>

\* this.argoFloats.filter(f => f.status === 'active').length
ActiveCount(floats) ==
    Cardinality({i \in 1..Len(floats) : floats[i].status = "active"})

\* The keys of the responses object, as literals of the source.
KwTemperature == <<"t","e","m","p","e","r","a","t","u","r","e">>
KwSalinity == <<"s","a","l","i","n","i","t","y">>
KwLocation == <<"l","o","c","a","t","i","o","n">>
KwFloat == <<"f","l","o","a","t">>
KwProfile == <<"p","r","o","f","i","l","e">>

\* A paragraph is named by its topic; n is the number it interpolates
\* (0 when the paragraph interpolates none).
Paragraph(topic, n) == [topic |-> topic, n |-> n]
Fallback == Paragraph("fallback", 0)
Greeting == Paragraph("greeting", 0)
NoReply == Paragraph("", 0)

\* generateChatResponse: the responses object, in insertion order, which
\* is the order Object.entries walks it in.
responsesMutSwapped(floats) ==
    << <<KwSalinity, Paragraph("salinity", 0)>>,
       <<KwTemperature, Paragraph("temperature", Len(floats))>>,
       <<KwLocation, Paragraph("location", Len(floats))>>,
       <<KwFloat, Paragraph("float", ActiveCount(floats))>>,
       <<KwProfile, Paragraph("profile", 0)>> >>

responses(floats) ==
    << <<KwTemperature, Paragraph("temperature", Len(floats))>>,
       <<KwSalinity, Paragraph("salinity", 0)>>,
       <<KwLocation, Paragraph("location", Len(floats))>>,
       <<KwFloat, Paragraph("float", ActiveCount(floats))>>,
       <<KwProfile, Paragraph("profile", 0)>> >>

\* The for-of loop of generateChatResponse from entry i on.
RECURSIVE firstMatch(_, _, _)
firstMatch(entries, queryLower, i) ==
    IF i > Len(entries) THEN Fallback
    ELSE IF includes(queryLower, entries[i][1]) THEN entries[i][2]
    ELSE firstMatch(entries, queryLower, i + 1)

generateChatResponseMutCase(floats, q) ==
    firstMatch(responses(floats), q, 1)

generateChatResponse(floats, q) ==
    firstMatch(responses(floats), toLowerCase(q), 1)

(***************************************************************************)
(* The stored credential.  A string is kept as the sequence of pieces      *)
(* String.prototype.split('.') cuts it into (a string without a dot is one *)
(* piece); a piece is the empty string, a string atob rejects, or the      *)
(* base64 form of a text.  A text is JSON for a value, or not JSON.        *)
(***************************************************************************)
Null == [t |-> "null"]                     \* JavaScript null, JSON null
Thrown == [t |-> "thrown"]                 \* the call threw
NoItem == <<>>                             \* localStorage has no such item

EmptyPiece == [k |-> "empty"]              \* ""
RawPiece == [k |-> "raw"]                  \* not base64: atob throws on it
NotJson == [json |-> FALSE]                \* a text JSON.parse throws on

\* JSON.stringify
JSONstringify(v) == [json |-> TRUE, val |-> v]

\* JSON.parse
JSONparse(text) == IF text.json THEN text.val ELSE Thrown

\* btoa: base64 text holds no '.', so the result is a single piece
btoa(text) == << [k |-> "b64", text |-> text] >>

\* token.split('.')[1]; a missing piece is undefined, which atob reads as
\* the nine characters "undefined", a length no base64 string has
splitPiece1(token) == IF Len(token) >= 2 THEN token[2] ELSE RawPiece

\* atob; atob("") is "", which is not JSON
atob(piece) ==
    CASE piece.k = "b64" -> piece.text
      [] piece.k = "empty" -> NotJson
      [] OTHER -> Thrown

\* JSON.parse(atob(token.split('.')[1]))
decodePayload(token) ==
    LET text == atob(splitPiece1(token)) IN
    IF text = Thrown THEN Thrown ELSE JSONparse(text)

\* payload.exp: reading a property of null throws
readExpThrows(payload) == payload = Null

\* payload.exp > Date.now() / 1000; a value without exp gives undefined,
\* which compares false
expInFutureMutNotStrict(payload, t) ==
    "exp" \in DOMAIN payload /\ payload.exp * 1000 >= t

expInFuture(payload, t) ==
    "exp" \in DOMAIN payload /\ payload.exp * 1000 > t

\* if (token): null and "" are falsy
truthy(token) == token # NoItem /\ token # <<EmptyPiece>>

(***************************************************************************)
(* The application state as one record, and the methods of FloatChatApp as *)
(* functions from state to state.                                          *)
(***************************************************************************)
Absent == "absent"     \* no such element in the document

State ==
    [currentUser |-> currentUser, currentPage |-> currentPage,
     chatHistory |-> chatHistory, argoFloats |-> argoFloats,
     authToken |-> authToken, now |-> now,
     loginBtnHidden |-> loginBtnHidden, logoutBtnHidden |-> logoutBtnHidden,
     authModalHidden |-> authModalHidden, modalBody |-> modalBody,
     mainContent |-> mainContent, userContent |-> userContent,
     adminContent |-> adminContent, chatMessages |-> chatMessages,
     argoMap |-> argoMap, floatsHeader |-> floatsHeader,
     updateStatus |-> updateStatus,
     conversionStatus |-> conversionStatus,
     conversionResults |-> conversionResults,
     timers |-> timers, alerts |-> alerts]

\* The document as served, before any script ran.
Document ==
    [loginBtnHidden |-> FALSE, logoutBtnHidden |-> TRUE,
     authModalHidden |-> TRUE, modalBody |-> "",
     mainContent |-> "", userContent |-> Absent, adminContent |-> Absent,
     chatMessages |-> <<>>, argoMap |-> Absent, floatsHeader |-> <<>>,
     updateStatus |-> Absent, conversionStatus |-> Absent,
     conversionResults |-> <<>>]

updateNavigation(s) ==
    IF s.currentUser # Null
    THEN [s EXCEPT !.loginBtnHidden = TRUE, !.logoutBtnHidden = FALSE]
    ELSE [s EXCEPT !.loginBtnHidden = FALSE, !.logoutBtnHidden = TRUE]

checkAuthStatusMutNoUpdate(s) ==
    LET token == s.authToken IN
    IF ~truthy(token) THEN s
    ELSE LET payload == decodePayload(token) IN
         IF payload = Thrown \/ readExpThrows(payload)
         THEN [s EXCEPT !.authToken = NoItem]
         ELSE IF expInFuture(payload, s.now)
              THEN [s EXCEPT !.currentUser = payload]
              ELSE s

checkAuthStatus(s) ==
    LET token == s.authToken IN
    IF ~truthy(token) THEN s
    ELSE LET payload == decodePayload(token) IN
         IF payload = Thrown \/ readExpThrows(payload)
         THEN [s EXCEPT !.authToken = NoItem]
         ELSE IF expInFuture(payload, s.now)
              THEN updateNavigation([s EXCEPT !.currentUser = payload])
              ELSE s

\* A chat element that is replaced stays reachable from the callbacks that
\* captured it, but is no longer in the document.
detach(ts) ==
    [i \in 1..Len(ts) |->
        IF ts[i].kind = "reply" THEN [ts[i] EXCEPT !.attached = FALSE]
        ELSE ts[i]]

\* The same for the status and results elements of the converter.
detachConverter(ts) ==
    [i \in 1..Len(ts) |->
        IF ts[i].kind = "convert" THEN [ts[i] EXCEPT !.attached = FALSE]
        ELSE ts[i]]

\* content.innerHTML = ... of #main-content: everything below it is replaced
setMainContent(s, view) ==
    [s EXCEPT !.mainContent = view,
              !.userContent = IF view = "user" THEN "" ELSE Absent,
              !.adminContent = IF view = "admin" THEN "" ELSE Absent,
              !.chatMessages = <<>>,
              !.argoMap = Absent,
              !.floatsHeader = <<>>,
              !.updateStatus = Absent,
              !.conversionStatus = Absent,
              !.conversionResults = <<>>,
              !.timers = detachConverter(detach(s.timers))]

\* renderArgoMap: the number in the card header
renderArgoMap(floats) == Len(floats)

\* content.innerHTML = ... of #user-content
setUserContent(s, pane) ==
    [s EXCEPT !.userContent = pane,
              !.chatMessages =
                  IF pane = "chat"
                  THEN << [who |-> "bot", text |-> <<>>, reply |-> Greeting] >>
                  ELSE <<>>,
              !.argoMap = IF pane = "argo-map" THEN "empty" ELSE Absent,
              !.floatsHeader =
                  IF pane = "argo-map" THEN <<renderArgoMap(s.argoFloats)>>
                  ELSE <<>>,
              !.timers = detach(s.timers)]

\* setTimeout(callback, delay)
setTimeout(s, timer) == [s EXCEPT !.timers = Append(@, timer)]

showUserContent(s, type) ==
    IF type \notin {"chat", "argo-map", "ocean-map", "profile"} THEN s
    ELSE IF s.userContent = Absent THEN s         \* content is null: throws
    ELSE IF type = "profile" /\ s.currentUser = Null THEN s   \* throws
    ELSE IF type = "argo-map"
         THEN setTimeout(setUserContent(s, type),
                         [kind |-> "map", delay |-> MapDelay,
                          left |-> MapDelay])
    ELSE setUserContent(s, type)

\* initializeMap: L.map throws when the container is missing or already
\* holds a map
initializeMapMutConsumesFloats(s) ==
    IF s.argoMap = "empty"
    THEN [s EXCEPT !.argoMap = "initialized", !.argoFloats = Tail(@)]
    ELSE s

initializeMap(s) ==
    IF s.argoMap = "empty" THEN [s EXCEPT !.argoMap = "initialized"] ELSE s

\* content.innerHTML = ... of #admin-content
setAdminContent(s, pane) ==
    [s EXCEPT !.adminContent = pane,
              !.updateStatus = IF pane = "chatbot-db" THEN "" ELSE Absent,
              !.conversionStatus = IF pane = "nc-converter" THEN "" ELSE Absent,
              !.conversionResults = <<>>,
              !.timers = detachConverter(s.timers)]

showAdminContent(s, type) ==
    IF type \notin {"chatbot-db", "nc-converter", "system", "users"} THEN s
    ELSE IF s.adminContent = Absent THEN s        \* content is null: throws
    ELSE setAdminContent(s, type)

showAuthModal(s) ==
    [s EXCEPT !.modalBody = "loginForm", !.authModalHidden = FALSE]

hideModal(s) == [s EXCEPT !.authModalHidden = TRUE]

showPageMutEndsSession(s, page) ==
    LET s1 == [s EXCEPT !.currentPage = page] IN
    CASE page \in {"home", "about", "contact"} ->
            setMainContent([s1 EXCEPT !.currentUser = Null], page)
      [] page = "login" -> showAuthModal(s1)
      [] page = "user" -> showUserContent(setMainContent(s1, "user"), "chat")
      [] page = "admin" ->
            showAdminContent(setMainContent(s1, "admin"), "chatbot-db")
      [] OTHER -> s1

showPage(s, page) ==
    LET s1 == [s EXCEPT !.currentPage = page] IN
    CASE page \in {"home", "about", "contact"} -> setMainContent(s1, page)
      [] page = "login" -> showAuthModal(s1)
      [] page = "user" -> showUserContent(setMainContent(s1, "user"), "chat")
      [] page = "admin" ->
            showAdminContent(setMainContent(s1, "admin"), "chatbot-db")
      [] OTHER -> s1

init(s) == checkAuthStatus(showPage(s, "home"))

\* new FloatChatApp() in a freshly loaded document, with the storage and
\* the clock as found
constructor(storage, t) ==
    init([currentUser |-> Null, currentPage |-> "home", chatHistory |-> <<>>,
          argoFloats |-> Floats, authToken |-> storage, now |-> t,
          loginBtnHidden |-> Document.loginBtnHidden,
          logoutBtnHidden |-> Document.logoutBtnHidden,
          authModalHidden |-> Document.authModalHidden,
          modalBody |-> Document.modalBody,
          mainContent |-> Document.mainContent,
          userContent |-> Document.userContent,
          adminContent |-> Document.adminContent,
          chatMessages |-> Document.chatMessages,
          argoMap |-> Document.argoMap,
          floatsHeader |-> Document.floatsHeader,
          updateStatus |-> Document.updateStatus,
          conversionStatus |-> Document.conversionStatus,
          conversionResults |-> Document.conversionResults,
          timers |-> <<>>, alerts |-> 0])

\* handleLogin: the demoUsers table
demoUsers ==
    [user |-> [password |-> "user123", role |-> "user",
               name |-> "Marine Researcher"],
     admin |-> [password |-> "admin123", role |-> "admin",
                name |-> "System Administrator"]]

\* demoUsers[username] && demoUsers[username].password === password; a key
\* inherited from Object.prototype is truthy but has no password
authenticatesMutAnyPassword(username, password) ==
    username \in DOMAIN demoUsers

authenticates(username, password) ==
    /\ username \in DOMAIN demoUsers
    /\ demoUsers[username].password = password

\* Math.floor(Date.now() / 1000) + 3600
expiryAt(t) == (t \div 1000) + TokenLifetime

alert(s) == [s EXCEPT !.alerts = s.alerts + 1]

acceptLoginMutNoStore(s, username) ==
    LET user == [t |-> "obj", username |-> username,
                 role |-> demoUsers[username].role,
                 name |-> demoUsers[username].name]
        s1 == [s EXCEPT !.currentUser = user]
    IN  showPage(updateNavigation(hideModal(s1)), user.role)

\* handleLogin, the branch taken when the credentials match
acceptLogin(s, username) ==
    LET user == [t |-> "obj", username |-> username,
                 role |-> demoUsers[username].role,
                 name |-> demoUsers[username].name]
        token == btoa(JSONstringify(
                     [t |-> "obj", username |-> user.username,
                      role |-> user.role, name |-> user.name,
                      exp |-> expiryAt(s.now)]))
        s1 == [s EXCEPT !.currentUser = user, !.authToken = token]
    IN  showPage(updateNavigation(hideModal(s1)), user.role)

handleLoginMutClearsOnFailure(s, username, password) ==
    IF authenticates(username, password)
    THEN acceptLogin(s, username)
    ELSE alert([s EXCEPT !.currentUser = Null, !.authToken = NoItem])

handleLogin(s, username, password) ==
    IF authenticates(username, password)
    THEN acceptLogin(s, username)
    ELSE alert(s)

logoutMutKeepsToken(s) ==
    showPage(updateNavigation([s EXCEPT !.currentUser = Null]), "home")

logoutMutClearsHistory(s) ==
    showPage(updateNavigation([s EXCEPT !.currentUser = Null,
                                        !.authToken = NoItem,
                                        !.chatHistory = <<>>]), "home")

logout(s) ==
    showPage(updateNavigation([s EXCEPT !.currentUser = Null,
                                        !.authToken = NoItem]), "home")

sendChatMessageMutNoTrim(s, text) ==
    LET message == text IN
    IF message = <<>> THEN s
    ELSE LET response == generateChatResponse(s.argoFloats, message) IN
         [s EXCEPT
            !.chatMessages = Append(@, [who |-> "user", text |-> message,
                                        reply |-> NoReply]),
            !.timers = Append(@, [kind |-> "reply", delay |-> ReplyDelay,
                                  left |-> ReplyDelay,
                                  response |-> response, attached |-> TRUE]),
            !.chatHistory = Append(@, [user |-> message, bot |-> response,
                                       timestamp |-> s.now])]

sendChatMessage(s, text) ==
    LET message == trim(text) IN
    IF message = <<>> THEN s
    ELSE LET response == generateChatResponse(s.argoFloats, message) IN
         [s EXCEPT
            !.chatMessages = Append(@, [who |-> "user", text |-> message,
                                        reply |-> NoReply]),
            !.timers = Append(@, [kind |-> "reply", delay |-> ReplyDelay,
                                  left |-> ReplyDelay,
                                  response |-> response, attached |-> TRUE]),
            !.chatHistory = Append(@, [user |-> message, bot |-> response,
                                       timestamp |-> s.now])]

\* the callback sendChatMessage handed to setTimeout
replyCallback(s, timer) ==
    IF timer.attached
    THEN [s EXCEPT !.chatMessages =
                      Append(@, [who |-> "bot", text |-> <<>>,
                                 reply |-> timer.response])]
    ELSE s

\* What JSON.parse makes of the text typed into #trainingData.
textOf(trainingData) ==
    IF trainingData = "[{\"question\": \"q\", \"answer\": \"a\"}]"
    THEN JSONstringify([t |-> "array", n |-> 1])
    ELSE NotJson

updateChatbotDBMutAlwaysSuccess(s, trainingData) ==
    IF s.updateStatus = Absent THEN s
    ELSE [s EXCEPT !.updateStatus = "success"]

updateChatbotDB(s, trainingData) ==
    IF s.updateStatus = Absent THEN s             \* statusDiv is null: throws
    ELSE IF JSONparse(textOf(trainingData)) # Thrown
         THEN [s EXCEPT !.updateStatus = "success"]
         ELSE [s EXCEPT !.updateStatus = "invalid"]

\* String.prototype.indexOf, counting from 1; 0 when there is none
indexOf(str, sub) ==
    LET at == {i \in 1..(Len(str) - Len(sub) + 1) :
                  SubSeq(str, i, i + Len(sub) - 1) = sub}
    IN  IF at = {} THEN 0 ELSE CHOOSE i \in at : \A j \in at : i <= j

\* String.prototype.replace with a string pattern: the first occurrence
replace(str, sub, by) ==
    LET i == indexOf(str, sub) IN
    IF i = 0 THEN str
    ELSE SubSeq(str, 1, i - 1) \o by
            \o SubSeq(str, i + Len(sub), Len(str))

DotNc == <<".", "n", "c">>
DotCsv == <<".", "c", "s", "v">>

convertNCFilesMutNoCheck(s, files) ==
    IF s.conversionStatus = Absent THEN s
    ELSE setTimeout([s EXCEPT !.conversionStatus = "converting"],
                    [kind |-> "convert", delay |-> ConvertDelay,
                     left |-> ConvertDelay,
                     files |-> files, attached |-> TRUE])

convertNCFiles(s, files) ==
    IF s.conversionStatus = Absent THEN s         \* statusDiv is null: throws
    ELSE IF Len(files) = 0
         THEN [s EXCEPT !.conversionStatus = "select"]
         ELSE setTimeout([s EXCEPT !.conversionStatus = "converting"],
                         [kind |-> "convert", delay |-> ConvertDelay,
                          left |-> ConvertDelay,
                          files |-> files, attached |-> TRUE])

\* the callback convertNCFiles handed to setTimeout
conversionCallback(s, timer) ==
    IF timer.attached
    THEN [s EXCEPT
            !.conversionStatus = "completed",
            !.conversionResults =
                [i \in 1..Len(timer.files) |->
                    [name |-> timer.files[i],
                     csv |-> replace(timer.files[i], DotNc, DotCsv)]]]
    ELSE s

\* The clock moves on by ms milliseconds: every pending timer is that much
\* closer to its timeout, or past it.
elapse(ts, ms) ==
    [i \in 1..Len(ts) |->
        [ts[i] EXCEPT !.left = IF @ > ms THEN @ - ms ELSE 0]]

\* Timers run in the order of their timeouts; among equal timeouts, in the
\* order they were set.  Timer i may run once it is due and no timer set
\* before it with a timeout no longer than its own is still pending.
canRunMutAnyDue(ts, i) == ts[i].left = 0

canRun(ts, i) ==
    /\ ts[i].left = 0
    /\ \A j \in 1..(i - 1) : ts[j].delay > ts[i].delay

removeAt(ts, i) == SubSeq(ts, 1, i - 1) \o SubSeq(ts, i + 1, Len(ts))

runTimer(s, i) ==
    LET timer == s.timers[i]
        s1 == [s EXCEPT !.timers = removeAt(s.timers, i)]
    IN  CASE timer.kind = "reply" -> replyCallback(s1, timer)
          [] timer.kind = "convert" -> conversionCallback(s1, timer)
          [] OTHER -> initializeMap(s1)

(***************************************************************************)
(* The relational fixture.  Of argo_floats the columns the trigger, the    *)
(* procedures and the constraints read are kept (latitude and longitude    *)
(* in tenths of a degree); of audit_log, those the trigger writes, except  *)
(* the timestamp.  Values are within the CHECK constraints.                *)
(***************************************************************************)
\* INSERT IGNORE INTO argo_floats ... VALUES, into the empty table
SampleFloats ==
    << [id |-> 1, float_id |-> "2901623", latitude |-> -105,
        longitude |-> 678, status |-> "active", battery_level |-> 87],
       [id |-> 2, float_id |-> "2901624", latitude |-> -152,
        longitude |-> 721, status |-> "active", battery_level |-> 92],
       [id |-> 3, float_id |-> "2901625", latitude |-> -87,
        longitude |-> 653, status |-> "active", battery_level |-> 78],
       [id |-> 4, float_id |-> "2901626", latitude |-> -128,
        longitude |-> 705, status |-> "maintenance", battery_level |-> 45],
       [id |-> 5, float_id |-> "2901627", latitude |-> -62,
        longitude |-> 689, status |-> "active", battery_level |-> 89] >>

\* INSERT IGNORE INTO users ... VALUES: the columns with a UNIQUE key or
\* a role.
SampleUsers ==
    << [username |-> "admin", email |-> "admin@floatchat.com",
        role |-> "admin"],
       [username |-> "user", email |-> "user@floatchat.com",
        role |-> "user"] >>

\* INSERT IGNORE INTO ocean_profiles ... VALUES: float_id and depth.  The
\* table has no key but its AUTO_INCREMENT id, which is left out, so that
\* equal rows are rows that differ in nothing but the id.
SampleProfiles ==
    << [float_id |-> "2901623", depth |-> 5],
       [float_id |-> "2901623", depth |-> 10],
       [float_id |-> "2901623", depth |-> 25],
       [float_id |-> "2901623", depth |-> 50],
       [float_id |-> "2901623", depth |-> 100],
       [float_id |-> "2901624", depth |-> 5],
       [float_id |-> "2901624", depth |-> 10],
       [float_id |-> "2901624", depth |-> 25],
       [float_id |-> "2901624", depth |-> 50],
       [float_id |-> "2901624", depth |-> 100] >>

\* A server on which the script has never run.
EmptyServer ==
    [users |-> <<>>, argo_floats |-> <<>>, auto_increment |-> 1,
     ocean_profiles |-> <<>>, audit_log |-> <<>>, objects |-> {},
     errors |-> <<>>]

Object(type, name) == [type |-> type, name |-> name]

\* CREATE ... IF NOT EXISTS: the object exists afterwards, and one that
\* existed is left as it was
createIfNotExists(db, type, name) ==
    [db EXCEPT !.objects = @ \cup {Object(type, name)}]

\* CREATE OR REPLACE VIEW: the view exists afterwards, with this
\* definition
createOrReplace(db, type, name) ==
    [db EXCEPT !.objects = @ \cup {Object(type, name)}]

\* CREATE PROCEDURE, CREATE TRIGGER: an error when the object exists
create(db, type, name) ==
    IF Object(type, name) \in db.objects
    THEN [db EXCEPT !.errors =
                       Append(@, [error |-> "already exists",
                                  type |-> type, name |-> name])]
    ELSE [db EXCEPT !.objects = @ \cup {Object(type, name)}]

\* INSERT IGNORE INTO users: a row whose username or email is taken is
\* skipped
RECURSIVE insertIgnoreUsers(_, _)
insertIgnoreUsers(db, k) ==
    IF k > Len(SampleUsers) THEN db
    ELSE LET row == SampleUsers[k]
             taken == \E i \in 1..Len(db.users) :
                         \/ db.users[i].username = row.username
                         \/ db.users[i].email = row.email
         IN  insertIgnoreUsers(
                 IF taken THEN db
                 ELSE [db EXCEPT !.users = Append(@, row)], k + 1)

\* INSERT IGNORE INTO argo_floats: a row whose float_id is taken is
\* skipped; the AUTO_INCREMENT value drawn for it is not reused (InnoDB)
RECURSIVE insertIgnoreFloats(_, _)
insertIgnoreFloats(db, k) ==
    IF k > Len(SampleFloats) THEN db
    ELSE LET row == [SampleFloats[k] EXCEPT !.id = db.auto_increment]
             taken == \E i \in 1..Len(db.argo_floats) :
                         db.argo_floats[i].float_id = row.float_id
             drawn == [db EXCEPT !.auto_increment = @ + 1]
         IN  insertIgnoreFloats(
                 IF taken THEN drawn
                 ELSE [drawn EXCEPT !.argo_floats = Append(@, row)], k + 1)

\* INSERT IGNORE INTO ocean_profiles: a row whose float_id no float
\* carries fails the foreign key and is skipped; no other key can refuse
\* a row
RECURSIVE insertIgnoreProfiles(_, _)
insertIgnoreProfiles(db, k) ==
    IF k > Len(SampleProfiles) THEN db
    ELSE LET row == SampleProfiles[k]
             referenced == \E i \in 1..Len(db.argo_floats) :
                              db.argo_floats[i].float_id = row.float_id
         IN  insertIgnoreProfiles(
                 IF referenced
                 THEN [db EXCEPT !.ocean_profiles = Append(@, row)]
                 ELSE db, k + 1)

\* The statements of the script that define or fill something, in order.
Script ==
    << [kind |-> "create if not exists", type |-> "database",
        name |-> "floatchat"],
       [kind |-> "create if not exists", type |-> "user",
        name |-> "floatchat_user"],
       [kind |-> "create if not exists", type |-> "table", name |-> "users"],
       [kind |-> "create if not exists", type |-> "table",
        name |-> "argo_floats"],
       [kind |-> "create if not exists", type |-> "table",
        name |-> "ocean_profiles"],
       [kind |-> "insert ignore", name |-> "users"],
       [kind |-> "insert ignore", name |-> "argo_floats"],
       [kind |-> "insert ignore", name |-> "ocean_profiles"],
       [kind |-> "create or replace", type |-> "view",
        name |-> "active_floats"],
       [kind |-> "create or replace", type |-> "view",
        name |-> "latest_profiles"],
       [kind |-> "create", type |-> "procedure",
        name |-> "GetFloatProfiles"],
       [kind |-> "create", type |-> "procedure",
        name |-> "GetFloatsInRegion"],
       [kind |-> "create if not exists", type |-> "table",
        name |-> "audit_log"],
       [kind |-> "create", type |-> "trigger",
        name |-> "argo_floats_audit"] >>

execute(db, st) ==
    CASE st.kind = "create if not exists" ->
            createIfNotExists(db, st.type, st.name)
      [] st.kind = "create or replace" ->
            createOrReplace(db, st.type, st.name)
      [] st.kind = "create" -> create(db, st.type, st.name)
      [] st.name = "users" -> insertIgnoreUsers(db, 1)
      [] st.name = "argo_floats" -> insertIgnoreFloats(db, 1)
      [] OTHER -> insertIgnoreProfiles(db, 1)

\* The client runs the script from statement k on: it stops at the first
\* error unless it was started with --force.
RECURSIVE source(_, _, _)
source(db, k, force) ==
    IF k > Len(Script) THEN db
    ELSE LET after == execute(db, Script[k]) IN
         IF after.errors # db.errors /\ ~force THEN after
         ELSE source(after, k + 1, force)

\* The server as the variables hold it, no statement run yet.
Server ==
    [users |-> users, argo_floats |-> argo_floats,
     auto_increment |-> auto_increment, ocean_profiles |-> ocean_profiles,
     audit_log |-> audit_log, objects |-> objects, errors |-> <<>>]

\* The database once the script has run on an empty server.
DatabaseSetUp ==
    LET db == source(EmptyServer, 1, FALSE) IN
    /\ users = db.users
    /\ argo_floats = db.argo_floats
    /\ auto_increment = db.auto_increment
    /\ ocean_profiles = db.ocean_profiles
    /\ audit_log = db.audit_log
    /\ objects = db.objects
    /\ statement = [op |-> "SOURCE", errors |-> db.errors]

\* The body of trigger argo_floats_audit; user_id is not in the column
\* list and stays NULL.
argo_floats_auditMutNewAsOld(old, new) ==
    [table_name |-> "argo_floats", operation |-> "UPDATE",
     old_values |-> [id |-> new.id, status |-> new.status,
                     battery_level |-> new.battery_level],
     new_values |-> [id |-> new.id, status |-> new.status,
                     battery_level |-> new.battery_level],
     user_id |-> "NULL"]

argo_floats_audit(old, new) ==
    [table_name |-> "argo_floats", operation |-> "UPDATE",
     old_values |-> [id |-> old.id, status |-> old.status,
                     battery_level |-> old.battery_level],
     new_values |-> [id |-> new.id, status |-> new.status,
                     battery_level |-> new.battery_level],
     user_id |-> "NULL"]

\* WHERE id = n, or WHERE battery_level < n
Matches(where, row) ==
    IF where.column = "id" THEN row.id = where.n
    ELSE row.battery_level < where.n

\* SET column = value, ...
assign(row, set) ==
    [c \in DOMAIN row |-> IF c \in DOMAIN set THEN set[c] ELSE row[c]]

\* UPDATE argo_floats SET ... WHERE ...: the matching rows are changed one
\* after the other, in the order the server visits them, and AFTER UPDATE
\* ... FOR EACH ROW runs the trigger after each, whether or not a value
\* differs.
RECURSIVE updateRows(_, _, _, _)
updateRows(db, set, order, k) ==
    IF k > Len(order) THEN db
    ELSE LET i == order[k]
             old == db.rows[i]
             new == assign(old, set)
         IN  updateRows([rows |-> [db.rows EXCEPT ![i] = new],
                         log |-> Append(db.log, argo_floats_audit(old, new))],
                        set, order, k + 1)

\* The orders in which the rows at the positions in S can be visited.
Orders(S) ==
    {o \in [1..Cardinality(S) -> S] :
        \A j, k \in 1..Cardinality(S) : j # k => o[j] # o[k]}

\* a BETWEEN x AND y
Between(a, x, y) == x <= a /\ a <= y

\* The SELECT of procedure GetFloatsInRegion: its result set, no order
\* being asked for.
GetFloatsInRegionMutAnyStatus(rows, min_lat, max_lat, min_lon, max_lon) ==
    {rows[i] : i \in {j \in 1..Len(rows) :
        /\ Between(rows[j].latitude, min_lat, max_lat)
        /\ Between(rows[j].longitude, min_lon, max_lon)}}

GetFloatsInRegion(rows, min_lat, max_lat, min_lon, max_lon) ==
    {rows[i] : i \in {j \in 1..Len(rows) :
        /\ Between(rows[j].latitude, min_lat, max_lat)
        /\ Between(rows[j].longitude, min_lon, max_lon)
        /\ rows[j].status = "active"}}

WhereInputs ==
    { [column |-> "id", n |-> 1], [column |-> "id", n |-> 4],
      [column |-> "id", n |-> 6], [column |-> "battery_level", n |-> 80] }
SetInputs ==
    { [status |-> "lost"], [battery_level |-> 45],
      [status |-> "active", battery_level |-> 100] }
NewFloats ==
    { [float_id |-> "2901628", latitude |-> -90, longitude |-> 700] }

\* Arguments of CALL GetFloatsInRegion(min_lat, max_lat, min_lon, max_lon),
\* in tenths of a degree: two boxes with floats on their edges, one with
\* its latitudes the wrong way round, and the whole globe.
RegionInputs ==
    { <<-105, -62, 653, 689>>, <<-160, -100, 670, 730>>,
      <<-62, -105, 653, 689>>, <<-900, 900, -1800, 1800>> }

(***************************************************************************)
(* Inputs.                                                                 *)
(***************************************************************************)
\* The instants at which the clock is read: the first, and then one every
\* token lifetime and half a second, so that an instant falls inside a
\* second as well as on one.
Instant(i) == i * (1000 * TokenLifetime + 500)
TimePoints == {Instant(i) : i \in 0..MaxTicks}

\* Payloads a credential found in storage may carry.
StoredPayloads ==
    { [k |-> "b64", text |-> JSONstringify(
          [t |-> "obj", username |-> "user", role |-> "user",
           name |-> "Marine Researcher", exp |-> 1])],
      [k |-> "b64", text |-> JSONstringify(
          [t |-> "obj", username |-> "admin", role |-> "admin",
           name |-> "System Administrator", exp |-> 0])],
      [k |-> "b64", text |-> JSONstringify(
          [t |-> "obj", username |-> "user", role |-> "user",
           name |-> "Marine Researcher"])],
      [k |-> "b64", text |-> JSONstringify(Null)],
      [k |-> "b64", text |-> JSONstringify([t |-> "num", n |-> 7])],
      [k |-> "b64", text |-> NotJson],
      RawPiece,
      EmptyPiece }

\* What local storage may hold when the document is loaded: nothing, a
\* string without a dot, or header.payload.signature.
StoredCredentials ==
    {NoItem, <<RawPiece>>}
        \cup {<<RawPiece, p, RawPiece>> : p \in StoredPayloads}

Usernames == {"user", "admin", "constructor"}
Passwords == {"user123", "admin123"}
PageInputs == {"home", "about", "contact", "login", "user", "admin", "settings"}
UserPanes == {"chat", "argo-map", "ocean-map", "profile"}
AdminPanes == {"chatbot-db", "nc-converter", "system", "users"}
TrainingInputs ==
    { "[{\"question\": \"q\", \"answer\": \"a\"}]", "", "{question: q}" }
FileSelections ==
    { <<>>,
      << <<"b", ".", "n", "c", ".", "n", "c">>, <<"c", ".", "t", "x", "t">> >> }
ChatInputs == { <<>>, <<" ", "\t">>, <<" "," ","F","l","o","a","t"," ">> }

QueuedInputs ==
    { <<" ", "\t">>, <<" "," ","F","l","o","a","t"," ">>,
      <<"S","a","l","i","n","i","t","y","?">> }

Fragments ==
    { KwTemperature, KwSalinity, KwLocation, KwFloat, KwProfile,
      <<"S","a","l","i","n","i","t","y">>, <<"T","E","M","P","E","R","A","T","U","R","E">>, <<"f","l","o","a">>, <<"t">>, <<" ">>, <<"x","y","z">> }

RECURSIVE Concatenations(_)
Concatenations(n) ==
    IF n = 0 THEN {<<>>}
    ELSE LET shorter == Concatenations(n - 1) IN
         shorter \cup {f \o q : f \in Fragments, q \in shorter}

Queries == Concatenations(MaxFrags)

(***************************************************************************)
(* Actions.                                                                *)
(***************************************************************************)
Become(s) ==
    /\ currentUser' = s.currentUser
    /\ currentPage' = s.currentPage
    /\ chatHistory' = s.chatHistory
    /\ argoFloats' = s.argoFloats
    /\ authToken' = s.authToken
    /\ now' = s.now
    /\ loginBtnHidden' = s.loginBtnHidden
    /\ logoutBtnHidden' = s.logoutBtnHidden
    /\ authModalHidden' = s.authModalHidden
    /\ modalBody' = s.modalBody
    /\ mainContent' = s.mainContent
    /\ userContent' = s.userContent
    /\ adminContent' = s.adminContent
    /\ chatMessages' = s.chatMessages
    /\ argoMap' = s.argoMap
    /\ floatsHeader' = s.floatsHeader
    /\ updateStatus' = s.updateStatus
    /\ conversionStatus' = s.conversionStatus
    /\ conversionResults' = s.conversionResults
    /\ timers' = s.timers
    /\ alerts' = s.alerts

Called(op, arg) == call' = [op |-> op, arg |-> arg]

\* The state a handler starts from: it has raised no alert yet.
Entry == [State EXCEPT !.alerts = 0]

Loaded(storage, t) ==
    LET s == constructor(storage, t) IN
    /\ currentUser = s.currentUser
    /\ currentPage = s.currentPage
    /\ chatHistory = s.chatHistory
    /\ argoFloats = s.argoFloats
    /\ authToken = s.authToken
    /\ now = s.now
    /\ loginBtnHidden = s.loginBtnHidden
    /\ logoutBtnHidden = s.logoutBtnHidden
    /\ authModalHidden = s.authModalHidden
    /\ modalBody = s.modalBody
    /\ mainContent = s.mainContent
    /\ userContent = s.userContent
    /\ adminContent = s.adminContent
    /\ chatMessages = s.chatMessages
    /\ argoMap = s.argoMap
    /\ floatsHeader = s.floatsHeader
    /\ updateStatus = s.updateStatus
    /\ conversionStatus = s.conversionStatus
    /\ conversionResults = s.conversionResults
    /\ timers = s.timers
    /\ alerts = s.alerts

Init ==
    /\ \E storage \in StoredCredentials : Loaded(storage, 0)
    /\ call = [op |-> "init", arg |-> <<>>]
    /\ query = <<>>
    /\ reply = NoReply
    /\ DatabaseSetUp

\* The document is loaded again: the script runs from the top.
Reload ==
    /\ Become(constructor(authToken, now))
    /\ Called("init", <<>>)
    /\ UNCHANGED <<query, reply, dbVars>>

\* The global showPage(page), and the buttons that call app.showPage.
ShowPage ==
    \E page \in PageInputs :
        /\ Become(showPage(Entry, page))
        /\ Called("showPage", <<page>>)
        /\ UNCHANGED <<query, reply, dbVars>>

\* The close control of the login modal.
HideModal ==
    /\ ~authModalHidden
    /\ Become(hideModal(Entry))
    /\ Called("hideModal", <<>>)
    /\ UNCHANGED <<query, reply, dbVars>>

\* The login form is submitted.
HandleLogin ==
    \E username \in Usernames, password \in Passwords :
        /\ modalBody = "loginForm" /\ ~authModalHidden
        /\ Become(handleLogin(Entry, username, password))
        /\ Called("handleLogin", <<username, password>>)
        /\ UNCHANGED <<query, reply, dbVars>>

Logout ==
    /\ Become(logout(Entry))
    /\ Called("logout", <<>>)
    /\ UNCHANGED <<query, reply, dbVars>>

\* A button of the user dashboard's sidebar.
ShowUserContent ==
    \E type \in UserPanes :
        /\ mainContent = "user"
        /\ type = "argo-map" => Len(timers) < MaxTimers
        /\ Become(showUserContent(Entry, type))
        /\ Called("showUserContent", <<>>)
        /\ UNCHANGED <<query, reply, dbVars>>

\* A button of the admin dashboard's sidebar.
ShowAdminContent ==
    \E type \in AdminPanes :
        /\ mainContent = "admin"
        /\ Become(showAdminContent(Entry, type))
        /\ Called("showAdminContent", <<>>)
        /\ UNCHANGED <<query, reply, dbVars>>

\* The Update Database button, with text in #trainingData.
UpdateChatbotDB ==
    \E trainingData \in TrainingInputs :
        /\ adminContent = "chatbot-db"
        /\ Become(updateChatbotDB(Entry, trainingData))
        /\ Called("updateChatbotDB", <<trainingData>>)
        /\ UNCHANGED <<query, reply, dbVars>>

\* The Convert to CSV button, with files selected in #ncFiles.
ConvertNCFiles ==
    \E files \in FileSelections :
        /\ adminContent = "nc-converter"
        /\ Len(files) > 0 => Len(timers) < MaxTimers
        /\ Become(convertNCFiles(Entry, files))
        /\ Called("convertNCFiles", IF files = <<>> THEN <<>> ELSE <<"files">>)
        /\ UNCHANGED <<query, reply, dbVars>>

\* Send is pressed, or Enter in #chatInput, with text in the input.
Submit(texts, maxChat, maxTimers) ==
    \E text \in texts :
        /\ userContent = "chat"
        /\ trim(text) # <<>> =>
              Len(chatHistory) < maxChat /\ Len(timers) < maxTimers
        /\ Become(sendChatMessage(Entry, text))
        /\ Called("sendChatMessage", text)
        /\ UNCHANGED <<query, reply, dbVars>>

SendChatMessage == Submit(ChatInputs, MaxChat, MaxTimers)

\* A pending callback runs.
TimerFires ==
    \E i \in 1..Len(timers) :
        /\ canRun(timers, i)
        /\ Become(runTimer(Entry, i))
        /\ Called("timer", <<>>)
        /\ UNCHANGED <<query, reply, dbVars>>

\* Time passes.
Advance ==
    \E t \in TimePoints :
        /\ t > now
        /\ Become([Entry EXCEPT !.now = t,
                                 !.timers = elapse(@, t - now)])
        /\ Called("advance", <<>>)
        /\ UNCHANGED <<query, reply, dbVars>>

Next ==
    \/ Reload
    \/ ShowPage
    \/ HideModal
    \/ HandleLogin
    \/ Logout
    \/ ShowUserContent
    \/ ShowAdminContent
    \/ SendChatMessage
    \/ TimerFires
    \/ Advance

Spec == Init /\ [][Next]_vars

(***************************************************************************)
(* The forms of the admin panes are explored apart from the visitor's and  *)
(* the user's operations, and both together, in a browser whose storage    *)
(* was empty when the document was loaded.                                 *)
(***************************************************************************)
CleanInit ==
    /\ Loaded(NoItem, 0)
    /\ call = [op |-> "init", arg |-> <<>>]
    /\ query = <<>>
    /\ reply = NoReply
    /\ DatabaseSetUp

\* The operations within reach of an administrator on the admin dashboard.
AdminNext ==
    \/ Reload
    \/ ShowPage
    \/ HideModal
    \/ HandleLogin
    \/ Logout
    \/ ShowAdminContent
    \/ UpdateChatbotDB
    \/ ConvertNCFiles
    \/ TimerFires
    \/ Advance

AdminSpec == CleanInit /\ [][AdminNext]_vars

\* Every operation of the client.
FullNext ==
    \/ Next
    \/ UpdateChatbotDB
    \/ ConvertNCFiles

FullSpec == CleanInit /\ [][FullNext]_vars

(***************************************************************************)
(* One load of the document in a browser with empty storage, with several  *)
(* chat queries in flight.                                                 *)
(***************************************************************************)
SendQueued == Submit(QueuedInputs, MaxQueued, MaxQueued)

ChatNext ==
    \/ ShowPage
    \/ ShowUserContent
    \/ SendQueued
    \/ TimerFires
    \/ Advance

ChatSpec == CleanInit /\ [][ChatNext]_vars

(***************************************************************************)
(* The relational fixture in use: a session issues statements against      *)
(* argo_floats.                                                            *)
(***************************************************************************)
UpdateFloats ==
    \E where \in WhereInputs, set \in SetInputs :
        LET matched == {i \in 1..Len(argo_floats) :
                           Matches(where, argo_floats[i])}
        IN  /\ Len(audit_log) + Cardinality(matched) <= MaxAudit
            /\ \E order \in Orders(matched) :
                  LET db == updateRows([rows |-> argo_floats,
                                        log |-> audit_log], set, order, 1)
                  IN  /\ argo_floats' = db.rows
                      /\ audit_log' = db.log
            /\ statement' = [op |-> "UPDATE", where |-> where, set |-> set]
            /\ UNCHANGED <<auto_increment, users, ocean_profiles, objects,
                           appVars, query, reply>>

\* INSERT INTO argo_floats (float_id, latitude, longitude) VALUES ...:
\* id, status and battery_level take their defaults.
InsertFloat ==
    \E new \in NewFloats :
        /\ auto_increment <= Len(SampleFloats) + MaxInserts
        /\ \A i \in 1..Len(argo_floats) :
              argo_floats[i].float_id # new.float_id
        /\ argo_floats' =
              Append(argo_floats,
                     [id |-> auto_increment, float_id |-> new.float_id,
                      latitude |-> new.latitude,
                      longitude |-> new.longitude,
                      status |-> "active", battery_level |-> 100])
        /\ auto_increment' = auto_increment + 1
        /\ statement' = [op |-> "INSERT"]
        /\ UNCHANGED <<audit_log, users, ocean_profiles, objects,
                       appVars, query, reply>>

\* DELETE FROM argo_floats WHERE ...; the foreign key of ocean_profiles is
\* ON DELETE CASCADE.
DeleteFloats ==
    \E where \in WhereInputs :
        LET Stays(row) == ~Matches(where, row)
            Referenced(profile) ==
                \E i \in 1..Len(argo_floats) :
                    /\ Stays(argo_floats[i])
                    /\ argo_floats[i].float_id = profile.float_id
        IN  /\ argo_floats' = SelectSeq(argo_floats, Stays)
            /\ ocean_profiles' = SelectSeq(ocean_profiles, Referenced)
            /\ statement' = [op |-> "DELETE", where |-> where]
            /\ UNCHANGED <<auto_increment, audit_log, users, objects,
                           appVars, query, reply>>

\* CALL GetFloatsInRegion(...): the tables stay as they are.
CallGetFloatsInRegion ==
    \E args \in RegionInputs :
        /\ statement' =
              [op |-> "CALL", args |-> args,
               result |-> GetFloatsInRegion(argo_floats, args[1], args[2],
                                            args[3], args[4])]
        /\ UNCHANGED <<argo_floats, auto_increment, audit_log, users,
                       ocean_profiles, objects, appVars, query, reply>>

DbNext ==
    \/ UpdateFloats
    \/ InsertFloat
    \/ DeleteFloats
    \/ CallGetFloatsInRegion

DbSpec == CleanInit /\ [][DbNext]_vars

(***************************************************************************)
(* The setup script is applied again to the server it has set up, in       *)
(* between insertions into and deletions from argo_floats.                 *)
(***************************************************************************)
\* mysql < mysql_setup.sql, with or without --force
Source ==
    \E force \in BOOLEAN :
        LET db == source(Server, 1, force) IN
        /\ Len(ocean_profiles) <= MaxSources * Len(SampleProfiles)
        /\ users' = db.users
        /\ argo_floats' = db.argo_floats
        /\ auto_increment' = db.auto_increment
        /\ ocean_profiles' = db.ocean_profiles
        /\ audit_log' = db.audit_log
        /\ objects' = db.objects
        /\ statement' = [op |-> "SOURCE", errors |-> db.errors]
        /\ UNCHANGED <<appVars, query, reply>>

SetupNext ==
    \/ Source
    \/ InsertFloat
    \/ DeleteFloats

SetupSpec == CleanInit /\ [][SetupNext]_vars

(***************************************************************************)
(* The resolver on its own: a query is drawn, the resolver is applied.     *)
(***************************************************************************)
ResolverInit ==
    /\ Loaded(NoItem, 0)
    /\ call = [op |-> "init", arg |-> <<>>]
    /\ query \in Queries
    /\ reply = NoReply
    /\ DatabaseSetUp

Resolve ==
    /\ reply = NoReply
    /\ reply' = generateChatResponse(argoFloats, query)
    /\ UNCHANGED <<appVars, query, dbVars>>

Ask ==
    /\ reply # NoReply
    /\ query' \in Queries
    /\ reply' = NoReply
    /\ UNCHANGED <<appVars, dbVars>>

ResolverNext == Resolve \/ Ask

ResolverSpec == ResolverInit /\ [][ResolverNext]_vars

(***************************************************************************)
(* Vocabulary of the properties.                                           *)
(***************************************************************************)
\* The two demo accounts, as the login form documents them.
DemoPairs == { <<"user", "user123">>, <<"admin", "admin123">> }
AccountRole(username) == IF username = "admin" THEN "admin" ELSE "user"
AccountName(username) ==
    IF username = "admin" THEN "System Administrator" ELSE "Marine Researcher"

KnownPages == {"home", "about", "contact", "login", "user", "admin"}

LoginCall(username, password) ==
    [op |-> "handleLogin", arg |-> <<username, password>>]

\* The credential is one a successful login writes.
LoginWritten(token) ==
    \E username \in {"user", "admin"}, t \in TimePoints :
        token = btoa(JSONstringify(
                    [t |-> "obj", username |-> username,
                     role |-> AccountRole(username),
                     name |-> AccountName(username),
                     exp |-> (t \div 1000) + 3600]))

\* The credential splits, decodes and parses into an object with an expiry.
WellFormed(token) ==
    /\ token # NoItem
    /\ decodePayload(token) # Thrown
    /\ decodePayload(token) # Null
    /\ "exp" \in DOMAIN decodePayload(token)

\* The expiry of the session on display: the one the identity carries, or
\* the one login wrote into the credential next to it.
SessionExpiry ==
    IF "exp" \in DOMAIN currentUser THEN currentUser.exp
    ELSE authToken[1].text.val.exp

(***************************************************************************)
(* C1.  Round trip of the stored credential: once a successful login has   *)
(* written the credential, a fresh start of the application at any time    *)
(* strictly before the credential's expiry adopts it as the current        *)
(* identity, with the username, role and name login set, and leaves the    *)
(* credential in storage.                                                  *)
(***************************************************************************)
C1_LoginCredentialRestored ==
    [][(/\ call'.op = "init"
        /\ LoginWritten(authToken)
        /\ authToken[1].text.val.exp * 1000 > now')
       => (/\ currentUser' # Null
           /\ currentUser'.username = authToken[1].text.val.username
           /\ currentUser'.role = authToken[1].text.val.role
           /\ currentUser'.name = authToken[1].text.val.name
           /\ authToken' = authToken)]_vars

(***************************************************************************)
(* C2.  For a stored credential that decodes and whose expiry is in the    *)
(* past, starting the application leaves the current user unset and        *)
(* removes the credential from local storage.                              *)
(***************************************************************************)
C2_ExpiredCredentialCleared ==
    [][(/\ call'.op = "init"
        /\ WellFormed(authToken)
        /\ decodePayload(authToken).exp * 1000 < now')
       => (currentUser' = Null /\ authToken' = NoItem)]_vars

(***************************************************************************)
(* C3.  For a stored credential that is malformed (it cannot be split,     *)
(* decoded and parsed into an object carrying an expiry), starting the     *)
(* application leaves the current user unset and removes the credential    *)
(* from local storage.                                                     *)
(***************************************************************************)
C3_MalformedCredentialCleared ==
    [][(/\ call'.op = "init"
        /\ authToken # NoItem
        /\ ~WellFormed(authToken))
       => (currentUser' = Null /\ authToken' = NoItem)]_vars

(***************************************************************************)
(* C4.  Login succeeds exactly for (user, user123) and (admin, admin123):  *)
(* on success the current user holds the account's username, role and      *)
(* name, a credential for that account is stored, the login modal is       *)
(* hidden and the current page is the page named by the account's role; on *)
(* any other pair no identity is adopted and an alert is raised.           *)
(***************************************************************************)
C4_LoginSucceedsForDemoAccounts ==
    [][\A username \in Usernames, password \in Passwords :
          call' = LoginCall(username, password) =>
             IF <<username, password>> \in DemoPairs
             THEN /\ currentUser' = [t |-> "obj", username |-> username,
                                     role |-> AccountRole(username),
                                     name |-> AccountName(username)]
                  /\ LoginWritten(authToken')
                  /\ authToken'[1].text.val.username = username
                  /\ authModalHidden'
                  /\ currentPage' = AccountRole(username)
                  /\ mainContent' = AccountRole(username)
                  /\ alerts' = 0
             ELSE /\ currentUser' = currentUser
                  /\ authToken' = authToken
                  /\ alerts' = 1]_vars

C4_Witness ==
    /\ call = LoginCall("admin", "admin123")
    /\ currentUser # Null
    /\ currentUser.role = "admin"
    /\ currentPage = "admin"
    /\ authToken # NoItem

(***************************************************************************)
(* C5.  For every pair other than the two demo accounts, login raises      *)
(* exactly one alert and changes nothing: the current user, the stored     *)
(* credential, the current page and the chat history are as before,        *)
(* whether or not a session existed.                                       *)
(***************************************************************************)
C5_FailedLoginChangesNothing ==
    [][\A username \in Usernames, password \in Passwords :
          (/\ call' = LoginCall(username, password)
           /\ <<username, password>> \notin DemoPairs)
          => (/\ alerts' = 1
              /\ currentUser' = currentUser
              /\ authToken' = authToken
              /\ currentPage' = currentPage
              /\ chatHistory' = chatHistory)]_vars

C5_Witness ==
    /\ call.op = "handleLogin"
    /\ <<call.arg[1], call.arg[2]>> \notin DemoPairs
    /\ alerts = 1
    /\ currentUser # Null
    /\ chatHistory # <<>>

(***************************************************************************)
(* C6.  Whenever the viewer is displayed as logged in (current user set,   *)
(* logout button shown), the session's expiry is still in the future.      *)
(***************************************************************************)
C6_DisplayedSessionUnexpired ==
    (currentUser # Null /\ ~logoutBtnHidden) => SessionExpiry * 1000 > now

(***************************************************************************)
(* C7.  Logout leaves the current user unset, the stored credential        *)
(* absent, the login button shown, the logout button hidden and the        *)
(* current page equal to home.                                             *)
(***************************************************************************)
C7_LogoutClearsSession ==
    call.op = "logout" =>
        /\ currentUser = Null
        /\ authToken = NoItem
        /\ ~loginBtnHidden
        /\ logoutBtnHidden
        /\ currentPage = "home"
        /\ mainContent = "home"

C7_Witness ==
    /\ call.op = "logout"
    /\ currentUser = Null
    /\ chatHistory # <<>>
    /\ now > 0

(***************************************************************************)
(* C8.  showPage with an identifier outside home, about, contact, login,   *)
(* user, admin is a no-op: the rendered view, the recorded current page,   *)
(* the session and the stored credential are unchanged.                    *)
(***************************************************************************)
C8_UnknownPageIsNoOp ==
    [][\A page \in PageInputs \ KnownPages :
          call' = [op |-> "showPage", arg |-> <<page>>]
          => (/\ mainContent' = mainContent
              /\ userContent' = userContent
              /\ adminContent' = adminContent
              /\ chatMessages' = chatMessages
              /\ currentPage' = currentPage
              /\ currentUser' = currentUser
              /\ authToken' = authToken)]_vars

(***************************************************************************)
(* C9.  The resolver is total: every query yields one of six fixed         *)
(* paragraphs (five topics or the fallback), and it yields the fallback    *)
(* exactly when the lower-cased query contains none of the keywords        *)
(* temperature, salinity, location, float, profile.                        *)
(***************************************************************************)
SixParagraphs ==
    { Paragraph("temperature", 5), Paragraph("salinity", 0),
      Paragraph("location", 5), Paragraph("float", 4),
      Paragraph("profile", 0), Paragraph("fallback", 0) }

Keywords == <<KwTemperature, KwSalinity, KwLocation, KwFloat, KwProfile>>
Topics == <<"temperature", "salinity", "location", "float", "profile">>

Mentions(q, i) == includes(toLowerCase(q), Keywords[i])

C9_ResolverTotal ==
    reply # NoReply =>
        /\ reply \in SixParagraphs
        /\ reply.topic = "fallback" <=> \A i \in 1..5 : ~Mentions(query, i)

C9_Witness ==
    /\ reply.topic = "salinity"
    /\ ~includes(query, KwSalinity)
    /\ Mentions(query, 2)

(***************************************************************************)
(* C10.  Keyword priority is temperature > salinity > location > float >   *)
(* profile: the resolver returns the paragraph of the highest-priority     *)
(* keyword present, wherever the keywords occur in the query; a query      *)
(* containing both temperature and salinity resolves to temperature.       *)
(***************************************************************************)
C10_KeywordPriority ==
    reply # NoReply =>
        \A i \in 1..5 :
            (Mentions(query, i) /\ \A j \in 1..(i - 1) : ~Mentions(query, j))
            => reply.topic = Topics[i]

C10_Witness ==
    /\ reply.topic = "temperature"
    /\ query = KwSalinity \o KwTemperature

(***************************************************************************)
(* C11.  A chat submission whose input is empty or consists of white       *)
(* space only has no effect: the transcript gains no entry, no reply       *)
(* callback is scheduled, and the chat history is unchanged.               *)
(***************************************************************************)
Blank(text) == \A i \in 1..Len(text) : text[i] \in {" ", "\t", "\n", "\r"}

C11_BlankSubmissionRejected ==
    [][(call'.op = "sendChatMessage" /\ Blank(call'.arg))
       => (/\ chatMessages' = chatMessages
           /\ timers' = timers
           /\ chatHistory' = chatHistory)]_vars

C11_Witness ==
    /\ call.op = "sendChatMessage"
    /\ Blank(call.arg)
    /\ Len(call.arg) > 0
    /\ Len(chatHistory) = 1
    /\ Len(timers) = 1

(***************************************************************************)
(* C12.  Every accepted (non-blank) query adds exactly one user entry to   *)
(* the transcript when it is submitted, and exactly one bot entry, which   *)
(* carries the resolver's reply to that query, when its reply callback     *)
(* runs after the delay: no query yields zero or several bot entries.      *)
(***************************************************************************)
UserEntry(text) == [who |-> "user", text |-> text, reply |-> NoReply]
BotEntry(response) == [who |-> "bot", text |-> <<>>, reply |-> response]

\* The step ran the reply callback that was pending as timer i.
ReplyRan(i) ==
    /\ call'.op = "timer"
    /\ i \in 1..Len(timers)
    /\ timers[i].kind = "reply"
    /\ timers' = removeAt(timers, i)

C12_OneUserOneBotEntry ==
    [][/\ (call'.op = "sendChatMessage" /\ ~Blank(call'.arg))
          => (/\ chatMessages' =
                    Append(chatMessages, UserEntry(trim(call'.arg)))
              /\ Len(timers') = Len(timers) + 1
              /\ timers'[Len(timers')].response =
                    generateChatResponse(argoFloats, trim(call'.arg)))
       /\ \A i \in 1..Len(timers) :
             ReplyRan(i)
             => chatMessages' =
                    Append(chatMessages, BotEntry(timers[i].response))]_vars

(***************************************************************************)
(* C13.  updateChatbotDB shows the failure marker when the training text   *)
(* is not valid JSON and the success marker when it is, and in both cases  *)
(* changes nothing but that marker: the session, the stored credential,    *)
(* the chat history and the resolver's response table stay as they were,   *)
(* and so does the rest of the view.                                       *)
(***************************************************************************)
ValidJsonTexts == { "[{\"question\": \"q\", \"answer\": \"a\"}]" }

C13_UpdateChatbotDBOnlyMarks ==
    [][call'.op = "updateChatbotDB"
       => (/\ updateStatus' =
                 IF call'.arg[1] \in ValidJsonTexts
                 THEN "success" ELSE "invalid"
           /\ currentUser' = currentUser
           /\ authToken' = authToken
           /\ chatHistory' = chatHistory
           /\ responses(argoFloats') = responses(argoFloats)
           /\ UNCHANGED <<currentPage, mainContent, adminContent,
                          conversionStatus, conversionResults, timers,
                          authModalHidden, loginBtnHidden,
                          logoutBtnHidden>>)]_vars

C13_Witness ==
    /\ call = [op |-> "updateChatbotDB", arg |-> <<"{question: q}">>]
    /\ updateStatus = "invalid"
    /\ currentUser # Null
    /\ authToken # NoItem
    /\ Len(chatHistory) = 1

(***************************************************************************)
(* C14.  A conversion request with no file selected shows the failure      *)
(* marker and does nothing else: no completion callback is scheduled and   *)
(* no conversion results are written.                                      *)
(***************************************************************************)
C14_NoFilesNoConversion ==
    [][call' = [op |-> "convertNCFiles", arg |-> <<>>]
       => (/\ conversionStatus' = "select"
           /\ timers' = timers
           /\ conversionResults' = conversionResults
           /\ UNCHANGED <<currentUser, authToken, chatHistory, currentPage,
                          mainContent, adminContent, updateStatus>>)]_vars

C14_Witness ==
    /\ call = [op |-> "convertNCFiles", arg |-> <<>>]
    /\ conversionStatus = "select"
    /\ conversionResults = <<>>
    /\ timers = <<>>
    /\ adminContent = "nc-converter"

(***************************************************************************)
(* C15.  Queries accepted while earlier replies are still pending each     *)
(* schedule a callback of their own, and no step cancels or merges a       *)
(* pending callback: a submission appends one, a timer step removes only   *)
(* the one that ran.  The bot replies appear in the transcript in the      *)
(* order in which their queries were submitted.                            *)
(***************************************************************************)
IsUserEntry(e) == e.who = "user"
IsReplyEntry(e) == e.who = "bot" /\ e.reply # Greeting

\* The k-th reply in the transcript answers the k-th query in it.
RepliesInOrder(transcript) ==
    LET asked == SelectSeq(transcript, IsUserEntry)
        answered == SelectSeq(transcript, IsReplyEntry)
    IN  /\ Len(answered) <= Len(asked)
        /\ \A k \in 1..Len(answered) :
              answered[k].reply =
                  generateChatResponse(argoFloats, asked[k].text)

C15_RepliesInSubmissionOrder ==
    [][/\ (call'.op = "sendChatMessage" /\ ~Blank(call'.arg))
          => (/\ Len(timers') = Len(timers) + 1
              /\ SubSeq(timers', 1, Len(timers)) = timers
              /\ timers'[Len(timers')].kind = "reply"
              /\ timers'[Len(timers')].delay = 1000)
       /\ call'.op = "timer"
          => \E i \in 1..Len(timers) : timers' = removeAt(timers, i)
       /\ RepliesInOrder(chatMessages')]_vars

C15_Witness ==
    /\ Len(chatMessages) = 5
    /\ chatMessages[2].who = "user"
    /\ chatMessages[3].who = "user"
    /\ chatMessages[4].reply.topic = "float"
    /\ chatMessages[5].reply.topic = "salinity"
    /\ chatHistory[2].timestamp = chatHistory[1].timestamp

(***************************************************************************)
(* C16.  The chat history is an append-only ordered list.  Within one      *)
(* load of the document, an accepted query appends one entry (the trimmed  *)
(* user text, the resolver's reply to it, the time of submission) and      *)
(* every other step, navigation, login and logout included, leaves the     *)
(* list as it is; so its length is the number of queries accepted so far,  *)
(* its entries are in submission order, and each entry's bot text is the   *)
(* resolver's result for that entry's user text.                           *)
(***************************************************************************)
Trimmed(text) ==
    /\ text # <<>>
    /\ ~Blank(<<text[1]>>)
    /\ ~Blank(<<text[Len(text)]>>)

HistoryConsistent(history) ==
    /\ \A k \in 1..Len(history) :
          /\ Trimmed(history[k].user)
          /\ history[k].bot =
                generateChatResponse(argoFloats, history[k].user)
    /\ \A j, k \in 1..Len(history) :
          j < k => history[j].timestamp <= history[k].timestamp

C16_ChatHistoryAppendOnly ==
    [][call'.op # "init"
       => (/\ IF call'.op = "sendChatMessage" /\ ~Blank(call'.arg)
              THEN /\ Len(chatHistory') = Len(chatHistory) + 1
                   /\ SubSeq(chatHistory', 1, Len(chatHistory)) = chatHistory
                   /\ chatHistory'[Len(chatHistory')].user = trim(call'.arg)
                   /\ chatHistory'[Len(chatHistory')].timestamp = now
              ELSE chatHistory' = chatHistory
           /\ chatHistory' # chatHistory => HistoryConsistent(chatHistory'))]_vars

C16_Witness ==
    /\ call.op = "logout"
    /\ Len(chatHistory) = 2
    /\ chatHistory[1].timestamp < chatHistory[2].timestamp
    /\ mainContent = "home"

(***************************************************************************)
(* C17.  The credential a successful login writes at time t carries        *)
(* exp = floor(t / 1000) + 3600, t in milliseconds; and when the           *)
(* application starts with a well-formed credential in storage, it adopts  *)
(* it only if its exp is strictly greater than the current time in         *)
(* seconds.                                                                *)
(***************************************************************************)
\* n = floor(ms / 1000): the largest whole number of seconds not above ms
IsFloorSeconds(n, ms) == n * 1000 <= ms /\ ms < (n + 1) * 1000

C17_ExpiryArithmetic ==
    [][/\ (call'.op = "handleLogin"
           /\ <<call'.arg[1], call'.arg[2]>> \in DemoPairs)
          => IsFloorSeconds(authToken'[1].text.val.exp - 3600, now)
       /\ (call'.op = "init" /\ WellFormed(authToken) /\ currentUser' # Null)
          => decodePayload(authToken).exp * 1000 > now']_vars

C17_Witness ==
    /\ call = LoginCall("user", "user123")
    /\ now = 3600500
    /\ authToken[1].text.val.exp = 7200
    /\ currentUser # Null

(***************************************************************************)
(* C18.  showPage, for any page identifier, changes only the view and the  *)
(* recorded current page: the current user, the stored credential and the  *)
(* chat history are the same after the call as before it.                  *)
(***************************************************************************)
C18_ShowPageKeepsSession ==
    [][call'.op = "showPage"
       => (/\ currentUser' = currentUser
           /\ authToken' = authToken
           /\ chatHistory' = chatHistory
           /\ currentPage' = call'.arg[1])]_vars

C18_Witness ==
    /\ call = [op |-> "showPage", arg |-> <<"about">>]
    /\ currentPage = "about"
    /\ currentUser # Null
    /\ authToken # NoItem
    /\ chatHistory # <<>>

(***************************************************************************)
(* C19.  The client's float list is immutable: in every reachable state,   *)
(* after navigation, login, logout, chat, map initialisation and the       *)
(* admin forms, it holds the five records it was constructed with, field   *)
(* by field.                                                               *)
(***************************************************************************)
C19_FloatListImmutable ==
    /\ Len(argoFloats) = 5
    /\ argoFloats = Floats
    /\ [i \in 1..5 |-> argoFloats[i].id] =
          <<"2901623", "2901624", "2901625", "2901626", "2901627">>
    /\ [i \in 1..5 |-> argoFloats[i].status] =
          <<"active", "active", "active", "maintenance", "active">>

C19_Witness ==
    /\ argoMap = "initialized"
    /\ currentUser # Null
    /\ authToken # NoItem
    /\ call.op = "timer"

(***************************************************************************)
(* C20.  Relational fixture: an UPDATE of argo_floats appends to           *)
(* audit_log exactly one record for every row it updates, with table name  *)
(* 'argo_floats', operation 'UPDATE', the row's id, status and             *)
(* battery_level before the update as old_values and after the update as   *)
(* new_values; no other statement on argo_floats writes audit_log.         *)
(***************************************************************************)
Snapshot(row) ==
    [id |-> row.id, status |-> row.status,
     battery_level |-> row.battery_level]

C20_UpdatesAudited ==
    [][IF statement'.op = "UPDATE"
       THEN LET hit == {i \in 1..Len(argo_floats) :
                           Matches(statement'.where, argo_floats[i])}
                added == SubSeq(audit_log', Len(audit_log) + 1,
                                Len(audit_log'))
            IN  /\ SubSeq(audit_log', 1, Len(audit_log)) = audit_log
                /\ Len(added) = Cardinality(hit)
                /\ \A i \in hit :
                      \E k \in 1..Len(added) :
                          /\ added[k].table_name = "argo_floats"
                          /\ added[k].operation = "UPDATE"
                          /\ added[k].old_values = Snapshot(argo_floats[i])
                          /\ added[k].new_values = Snapshot(argo_floats'[i])
                          /\ \A j \in 1..Len(added) :
                                added[j].old_values.id = argo_floats[i].id
                                => j = k
       ELSE audit_log' = audit_log]_vars

C20_Witness ==
    /\ statement = [op |-> "UPDATE",
                    where |-> [column |-> "battery_level", n |-> 80],
                    set |-> [status |-> "lost"]]
    /\ Len(audit_log) = 2
    /\ audit_log[1].old_values = [id |-> 4, status |-> "maintenance",
                                  battery_level |-> 45]
    /\ audit_log[2].old_values = [id |-> 3, status |-> "active",
                                  battery_level |-> 78]
    /\ audit_log[2].new_values = [id |-> 3, status |-> "lost",
                                  battery_level |-> 78]
    /\ Len(argo_floats) = 6

(***************************************************************************)
(* C21.  Relational fixture: GetFloatsInRegion(min_lat, max_lat, min_lon,  *)
(* max_lon) returns exactly the rows of argo_floats whose latitude is in   *)
(* [min_lat, max_lat] and whose longitude is in [min_lon, max_lon], the    *)
(* bounds included, and whose status is 'active'; a row whose status is    *)
(* inactive, maintenance or lost is never returned.                        *)
(***************************************************************************)
InRegion(row, args) ==
    /\ args[1] <= row.latitude /\ row.latitude <= args[2]
    /\ args[3] <= row.longitude /\ row.longitude <= args[4]

C21_RegionReturnsActiveInBox ==
    [][statement'.op = "CALL"
       => (/\ \A i \in 1..Len(argo_floats) :
                 argo_floats[i] \in statement'.result
                 <=> (/\ InRegion(argo_floats[i], statement'.args)
                      /\ argo_floats[i].status = "active")
           /\ \A row \in statement'.result :
                 /\ \E i \in 1..Len(argo_floats) : argo_floats[i] = row
                 /\ row.status \notin {"inactive", "maintenance", "lost"}
           /\ argo_floats' = argo_floats)]_vars

C21_Witness ==
    /\ statement.op = "CALL"
    /\ statement.args = <<-160, -100, 670, 730>>
    /\ argo_floats[1].status = "lost"
    /\ argo_floats[1].latitude = -105
    /\ argo_floats[4].status = "maintenance"
    /\ Cardinality(statement.result) = 1
    /\ \E row \in statement.result : row.id = 2 /\ row.status = "active"

(***************************************************************************)
(* C22.  Access guard: in every reachable state where the view rendered    *)
(* is the admin dashboard, the current user is set and has role 'admin',   *)
(* and where it is the user dashboard, the current user is set.            *)
(***************************************************************************)
C22_DashboardsGuarded ==
    /\ mainContent = "admin"
          => (currentUser # Null /\ currentUser.role = "admin")
    /\ mainContent = "user" => currentUser # Null

(***************************************************************************)
(* C23.  View tracking: in every reachable state the recorded current      *)
(* page is one of home, about, contact, user, admin and names the view     *)
(* rendered in the main content area.                                      *)
(***************************************************************************)
C23_CurrentPageNamesView ==
    /\ currentPage \in {"home", "about", "contact", "user", "admin"}
    /\ currentPage = mainContent

(***************************************************************************)
(* C24.  Session/storage consistency: in every reachable state in which    *)
(* the current user is set, local storage holds a credential whose         *)
(* username and role are the current user's.                               *)
(***************************************************************************)
\* What the stored credential carries: the payload piece of a string with
\* dots, the whole of a string without one; Thrown when it does not decode.
Carried(token) ==
    IF Len(token) >= 2 THEN decodePayload(token)
    ELSE IF atob(token[1]) = Thrown THEN Thrown
    ELSE JSONparse(atob(token[1]))

C24_SessionHasCredential ==
    currentUser # Null
    => (/\ authToken # NoItem
        /\ Carried(authToken) \notin {Thrown, Null}
        /\ {"username", "role"} \subseteq DOMAIN Carried(authToken)
        /\ Carried(authToken).username = currentUser.username
        /\ Carried(authToken).role = currentUser.role)

C24_Witness ==
    /\ currentUser # Null
    /\ currentUser.role = "admin"
    /\ call.op = "timer"
    /\ Len(authToken) = 1
    /\ now > 0

NoReplyPending == \A i \in 1..Len(timers) : timers[i].kind # "reply"

C26_TranscriptMatchesHistory ==
    (userContent = "chat" /\ NoReplyPending)
    => LET asked == SelectSeq(chatMessages, IsUserEntry)
           answered == SelectSeq(chatMessages, IsReplyEntry)
       IN  /\ Len(asked) = Len(chatHistory)
           /\ Len(answered) = Len(chatHistory)
           /\ \A k \in 1..Len(chatHistory) :
                 /\ asked[k].text = chatHistory[k].user
                 /\ answered[k].reply = chatHistory[k].bot

(***************************************************************************)
(* C27.  Conversion status race: the completion callback of an earlier     *)
(* conversion request never overwrites the status a later request has      *)
(* displayed: not the failure status of a later request made with no file  *)
(* selected, and not the 'Converting' status of a later request that is    *)
(* still pending.                                                          *)
(***************************************************************************)
ConversionPending(ts) ==
    \E i \in 1..Len(ts) : ts[i].kind = "convert" /\ ts[i].attached

C27_CallbackKeepsLaterStatus ==
    [][call'.op = "timer"
       => (/\ conversionStatus = "select" => conversionStatus' = "select"
           /\ (conversionStatus = "converting" /\ ConversionPending(timers'))
                 => conversionStatus' = "converting")]_vars

(***************************************************************************)
(* C28.  Map initialisation race: the deferred map initialisation that     *)
(* opening the ARGO-locations pane schedules only ever runs against a map  *)
(* container that is present in the current view and holds no map yet.     *)
(***************************************************************************)
\* The step ran a pending map initialisation.
MapInitRan ==
    /\ call'.op = "timer"
    /\ \E i \in 1..Len(timers) :
          timers[i].kind = "map" /\ timers' = removeAt(timers, i)

C28_MapInitFindsEmptyContainer ==
    [][MapInitRan => argoMap = "empty"]_vars

(***************************************************************************)
(* C29.  Setup idempotence: applying the setup script a second time in     *)
(* succession completes without error and leaves the objects and the rows  *)
(* of users, argo_floats and ocean_profiles as the first application left  *)
(* them, with no row twice.                                                *)
(***************************************************************************)
\* No two rows of the table agree in every column kept.
NoDuplicates(table) ==
    \A i, j \in 1..Len(table) : table[i] = table[j] => i = j

C29_SetupIdempotent ==
    [][(statement.op = "SOURCE" /\ statement'.op = "SOURCE")
       => (/\ statement'.errors = <<>>
           /\ objects' = objects
           /\ users' = users
           /\ argo_floats' = argo_floats
           /\ ocean_profiles' = ocean_profiles
           /\ NoDuplicates(users')
           /\ NoDuplicates(argo_floats')
           /\ NoDuplicates(ocean_profiles'))]_vars

(***************************************************************************)
(* C30.  Active-float count consistency: every number the client presents  *)
(* as a count of active floats (the header of the ARGO-locations card,     *)
(* the temperature reply and the float reply) is the number of float       *)
(* records whose status is 'active'.                                       *)
(***************************************************************************)
NumberActive ==
    Cardinality({i \in 1..Len(argoFloats) : argoFloats[i].status = "active"})

CountsActiveFloats(paragraph) == paragraph.topic \in {"temperature", "float"}

C30_ActiveCountsAgree ==
    /\ \A k \in 1..Len(floatsHeader) : floatsHeader[k] = NumberActive
    /\ \A k \in 1..Len(chatHistory) :
          CountsActiveFloats(chatHistory[k].bot)
          => chatHistory[k].bot.n = NumberActive
    /\ CountsActiveFloats(reply) => reply.n = NumberActive

====
